---- MODULE Spec2Model ----
(***************************************************************************)
(* A model of Converter.py: the Samsung Health -> Garmin TCX converter.    *)
(*                                                                         *)
(* Python dicts keep insertion order, and min() over a dict returns the    *)
(* first minimal key in that order, so a dict is modelled as a sequence of *)
(* <<key, value>> pairs in insertion order.  A sample (a JSON object or an *)
(* inner dict of the timeline) is a function from field names to values;   *)
(* "field in d" is field \in DOMAIN d.                                      *)
(*                                                                         *)
(* Units: timestamps are epoch milliseconds; a formatted time is the text  *)
(* of the whole seconds (strftime prints the literal ".000Z" for the       *)
(* milliseconds); heart-rate readings of the live data are JSON numbers,   *)
(* held in tenths of a beat so that int() has a fraction to cut.           *)
(***************************************************************************)
EXTENDS Integers, Sequences, FiniteSets, TLC

VARIABLES
    ex,           \* prepare_exercise: the summary row being converted
    pc,           \* prepare_exercise: the position in it
    lap,          \* the Lap element made by create_lap
    eligible,     \* history: timestamp -> the last location sample with both coordinates
    nlive,        \* the number of live samples iterated so far
    liveTimes,    \* history: the timestamps of the live samples iterated so far
    merged,       \* merge_location_and_live: the dict, as it is before line 239
    e,            \* the live loop's variable e: the sample of its last pass
    ts,           \* the local ts of the live loop
    nloc,         \* the number of location samples the location loop has iterated
    timeline,     \* the dict merge_location_and_live returns (sorted, filled)
    trackpoints,  \* prepare_exercise: the list of create_trackpoint's results
    outputs,      \* the serialized documents build_xml has returned, in call order
    exercises,    \* main: the rows of the exercise list
    idx,          \* main: the position of the for loop
    mpc,          \* main: the position inside the loop body
    xml,          \* main: the document held in memory
    files,        \* the exports directory: row number -> state of its output file
    log           \* what main has printed

prepVars == <<ex, pc, lap, eligible, nlive, liveTimes, merged, e, ts, nloc, timeline, trackpoints, outputs>>
mainVars == <<exercises, idx, mpc, xml, files, log>>
vars == <<ex, pc, lap, eligible, nlive, liveTimes, merged, e, ts, nloc, timeline, trackpoints, outputs,
          exercises, idx, mpc, xml, files, log>>

(***************************************************************************)
(* Bounds of the model.                                                    *)
(***************************************************************************)
MaxLocation == 2
MaxLive == 2
MaxCalls == 2
MaxExercises == 3

Timestamps == {1000, 1500, 2000}
Coordinates == {41, 42}
HeartRateReadings == {0, 1400, 1605}
CadenceReadings == {80}

NoSample == [start_time |-> 0]
EmptyDict == <<>>

(***************************************************************************)
(* The inputs: fetch_location_data and fetch_live_data return json.load's  *)
(* list of objects.                                                        *)
(***************************************************************************)
LocationSamples ==
    {[start_time |-> t, latitude |-> c, longitude |-> 0 - c] : t \in Timestamps, c \in Coordinates}
    \cup {[start_time |-> t, latitude |-> c] : t \in Timestamps, c \in {41}}
    \cup {[start_time |-> t, longitude |-> 0 - c] : t \in Timestamps, c \in {41}}

LiveSamples ==
    {[start_time |-> t] : t \in Timestamps}
    \cup {[start_time |-> t, heart_rate |-> h] : t \in Timestamps, h \in HeartRateReadings}
    \cup {[start_time |-> t, cadence |-> c] : t \in Timestamps, c \in CadenceReadings}
    \cup {[start_time |-> t, heart_rate |-> h, cadence |-> c] :
            t \in Timestamps, h \in HeartRateReadings, c \in CadenceReadings}

(***************************************************************************)
(* Python's dict, int(), abs(), min() and sorted().                        *)
(***************************************************************************)
Abs(n) == IF n < 0 THEN 0 - n ELSE n

\* int() of a non-negative JSON number held in tenths: truncation.
PyInt(tenths) == tenths \div 10

Keys(d) == {d[i][1] : i \in DOMAIN d}

Get(d, k) == d[CHOOSE i \in DOMAIN d : d[i][1] = k][2]

\* d[k] = v: a new key goes last, an existing key keeps its place.
Put(d, k, v) ==
    IF k \in Keys(d)
    THEN [i \in DOMAIN d |-> IF d[i][1] = k THEN <<k, v>> ELSE d[i]]
    ELSE Append(d, <<k, v>>)

\* datetime.fromtimestamp(ts / 1000, utc).strftime("%Y-%m-%dT%H:%M:%S.000Z")
FormatTime(t) == ToString(t \div 1000)

\* min(merged, key=lambda k: abs(k - ts)): the first key, in the dict's order,
\* whose distance is minimal.
NearestKey(d, t) ==
    LET dist(i) == Abs(d[i][1] - t)
        first == CHOOSE i \in DOMAIN d :
                    \A j \in DOMAIN d : dist(i) < dist(j) \/ (dist(i) = dist(j) /\ i <= j)
    IN d[first][1]

RECURSIVE SortedKeys(_)
SortedKeys(S) ==
    IF S = {} THEN <<>>
    ELSE LET m == CHOOSE x \in S : \A y \in S : x <= y
         IN <<m>> \o SortedKeys(S \ {m})

\* dict(sorted(merged.items()))
SortItems(d) ==
    LET ks == SortedKeys(Keys(d))
    IN [i \in DOMAIN ks |-> <<ks[i], Get(d, ks[i])>>]

\* Lines 240-243 on the item at index i, with hr the running value.
RECURSIVE FillFrom(_, _, _)
FillFrom(d, i, hr) ==
    IF i > Len(d) THEN d
    ELSE LET s == d[i][2]
             h == IF "heart_rate" \in DOMAIN s THEN s.heart_rate ELSE hr
             filled == ("heart_rate" :> h) @@ s
         IN FillFrom([d EXCEPT ![i] = <<d[i][1], filled>>], i + 1, h)

\* The fill with the running value never updated: a missing heart rate gets 0.
ForwardFillNoCarry(d) ==
    [i \in DOMAIN d |->
        <<d[i][1],
          ("heart_rate" :> (IF "heart_rate" \in DOMAIN d[i][2] THEN d[i][2].heart_rate ELSE 0))
          @@ d[i][2]>>]

\* Lines 240-243: the whole pass, hr starting at 0.
ForwardFill(d) == FillFrom(d, 1, 0)

(***************************************************************************)
(* merge_location_and_live                                                 *)
(***************************************************************************)
HasCoordinates(s) == "latitude" \in DOMAIN s /\ "longitude" \in DOMAIN s

\* Lines 211-219: the body of the location loop.
MergeLocation(d, s) ==
    IF ~HasCoordinates(s) THEN d
    ELSE Put(d, s.start_time,
             [time |-> FormatTime(s.start_time),
              latitude |-> s.latitude, longitude |-> s.longitude])

\* Lines 222-225 without the snap: the sample keeps its own timestamp.
SnapKeyNoSnap(d, s) == s.start_time

\* Lines 222-225: the key a live sample goes to.
SnapKey(d, s) ==
    IF s.start_time \notin Keys(d) /\ d # EmptyDict
    THEN NearestKey(d, s.start_time)
    ELSE s.start_time

\* Lines 227-231.
EnsureKey(d, k) ==
    IF k \notin Keys(d) THEN Put(d, k, [time |-> FormatTime(k)]) ELSE d

\* Lines 233-236 with a heart rate written only to a key that has none.
StoreReadingsKeepFirst(d, k, s) ==
    LET d1 == IF "heart_rate" \in DOMAIN s /\ "heart_rate" \notin DOMAIN Get(d, k)
              THEN Put(d, k, ("heart_rate" :> PyInt(s.heart_rate)) @@ Get(d, k))
              ELSE d
        d2 == IF "cadence" \in DOMAIN s
              THEN Put(d1, k, ("cadence" :> s.cadence) @@ Get(d1, k))
              ELSE d1
    IN d2

\* Lines 233-236.
StoreReadings(d, k, s) ==
    LET d1 == IF "heart_rate" \in DOMAIN s
              THEN Put(d, k, ("heart_rate" :> PyInt(s.heart_rate)) @@ Get(d, k))
              ELSE d
        d2 == IF "cadence" \in DOMAIN s
              THEN Put(d1, k, ("cadence" :> s.cadence) @@ Get(d1, k))
              ELSE d1
    IN d2

\* Lines 222-236: the body of the live loop.
MergeLive(d, s) == StoreReadings(EnsureKey(d, SnapKey(d, s)), SnapKey(d, s), s)

(***************************************************************************)
(* XML elements (lxml): a tag, an attribute text, a text and the children. *)
(* None is the empty tuple and an element x that is not None is <<x>>.     *)
(***************************************************************************)
Elem(tag, attrib, text, children) ==
    [tag |-> tag, attrib |-> attrib, text |-> text, children |-> children]

None == <<>>

Opt(cond, el) == IF cond THEN <<el>> ELSE <<>>

\* The numeric texts of the summary rows the model draws, as numbers in tenths:
\* float(s).
FloatTenths(s) ==
    CASE s = "0.0" -> 0
      [] s = "2.5" -> 25
      [] s = "80.0" -> 800
      [] s = "150.0" -> 1500
      [] s = "321.7" -> 3217

\* int(s) of a text: only a text of digits is an integer; the others raise
\* ValueError.
IsIntText(s) == s \in {"60000", "61500"}

ParseInt(s) ==
    CASE s = "60000" -> 60000
      [] s = "61500" -> 61500

\* str(int(duration) / 1000): true division, printed with its fraction.
MillisToSeconds(s) ==
    ToString(ParseInt(s) \div 1000) \o "." \o ToString((ParseInt(s) % 1000) \div 100)

\* str(int(float(s)))
TruncText(s) == ToString(FloatTenths(s) \div 10)

\* Lines 117-122: int(duration) raises ValueError on a text that is no integer.
create_lap_raises(duration) == duration # "" /\ ~IsIntText(duration)

\* Lines 135-141.
LapExtensions(avg_speed, avg_cadence) ==
    Opt(avg_speed # "" \/ avg_cadence # "",
        Elem("Extensions", "", "",
             <<Elem("ns3:LX", "", "",
                    Opt(avg_speed # "" /\ avg_speed # "0.0",
                        Elem("ns3:AvgSpeed", "", avg_speed, <<>>))
                    \o Opt(avg_cadence # "" /\ avg_cadence # "0.0",
                           Elem("ns3:AvgRunCadence", "", avg_cadence, <<>>)))>>))

\* Lines 115-143.  The Lap object: its children made here, and the Track
\* elements appended to it later, each the list of the Trackpoint objects
\* (their positions in the trackpoints list) it holds.
create_lap(start_time, duration, distance, calories, avg_hr, max_hr, avg_speed, max_speed, avg_cadence, max_cadence) ==
    [StartTime |-> start_time,
     children |->
        Opt(duration # "", Elem("TotalTimeSeconds", "", MillisToSeconds(duration), <<>>))
        \o Opt(distance # "", Elem("DistanceMeters", "", distance, <<>>))
        \o Opt(calories # "", Elem("Calories", "", TruncText(calories), <<>>))
        \o Opt(avg_hr # "" /\ avg_hr # "0.0",
               Elem("AverageHeartRateBpm", "", "",
                    <<Elem("Value", "", TruncText(avg_hr), <<>>)>>))
        \o Opt(max_hr # "" /\ max_hr # "0.0",
               Elem("MaximumHeartRateBpm", "", "",
                    <<Elem("Value", "", TruncText(max_hr), <<>>)>>))
        \o <<Elem("Intensity", "", "Active", <<>>),
             Elem("TriggerMethod", "", "Manual", <<>>)>>
        \o LapExtensions(avg_speed, avg_cadence),
     tracks |-> <<>>]

\* create_trackpoint with line 162 asking for more than two children.
create_trackpoint_strict(d) ==
    LET children ==
            <<Elem("Time", "", d.time, <<>>)>>
            \o Opt("latitude" \in DOMAIN d /\ "longitude" \in DOMAIN d,
                   Elem("Position", "", "",
                        <<Elem("LatitudeDegrees", "", ToString(d.latitude), <<>>),
                          Elem("LongitudeDegrees", "", ToString(d.longitude), <<>>)>>))
            \o Opt("heart_rate" \in DOMAIN d,
                   Elem("HeartRateBpm", "", "",
                        <<Elem("Value", "", ToString(d.heart_rate), <<>>)>>))
            \o Opt("cadence" \in DOMAIN d,
                   Elem("Cadence", "", ToString(d.cadence), <<>>))
    IN IF Len(children) > 2 THEN <<Elem("Trackpoint", "", "", children)>> ELSE None

\* Lines 146-162.
create_trackpoint(d) ==
    LET children ==
            <<Elem("Time", "", d.time, <<>>)>>
            \o Opt("latitude" \in DOMAIN d /\ "longitude" \in DOMAIN d,
                   Elem("Position", "", "",
                        <<Elem("LatitudeDegrees", "", ToString(d.latitude), <<>>),
                          Elem("LongitudeDegrees", "", ToString(d.longitude), <<>>)>>))
            \o Opt("heart_rate" \in DOMAIN d,
                   Elem("HeartRateBpm", "", "",
                        <<Elem("Value", "", ToString(d.heart_rate), <<>>)>>))
            \o Opt("cadence" \in DOMAIN d,
                   Elem("Cadence", "", ToString(d.cadence), <<>>))
    IN IF Len(children) > 1 THEN <<Elem("Trackpoint", "", "", children)>> ELSE None

\* Lines 198-203.
convert_activity_type(t) ==
    IF t = "1002" THEN "Running" ELSE IF t = "11007" THEN "Biking" ELSE "Other"

\* Lines 184-187: the new Track holds the trackpoints that are not None.
NewTrack(tps) ==
    LET F[i \in 0..Len(tps)] ==
            IF i = 0 THEN <<>>
            ELSE IF tps[i] # None THEN Append(F[i - 1], i) ELSE F[i - 1]
    IN F[Len(tps)]

\* lxml's append moves an element: a Trackpoint appended to the new Track
\* leaves the Track that held it.
Detach(tracks, moved) ==
    [t \in DOMAIN tracks |-> SelectSeq(tracks[t], LAMBDA i : i \notin moved)]

\* Lines 184-190: what build_xml does to the Lap object it was given.
AttachTrack(lp, tps) ==
    LET track == NewTrack(tps)
        moved == {track[i] : i \in DOMAIN track}
        rest == Detach(lp.tracks, moved)
    IN [lp EXCEPT !.tracks = IF Len(track) > 0 THEN Append(rest, track) ELSE rest]

\* Line 192: the text of the tree under root.
Serialize(a_id, sport, lp, tps) ==
    LET trackElem(t) == Elem("Track", "", "", [i \in DOMAIN t |-> tps[t[i]][1]])
        lapElem == Elem("Lap", lp.StartTime, "",
                        lp.children \o [t \in DOMAIN lp.tracks |-> trackElem(lp.tracks[t])])
    IN Elem("TrainingCenterDatabase", "version=1.1", "",
            <<Elem("Activities", "", "",
                   <<Elem("Activity", sport, "", <<Elem("Id", "", a_id, <<>>), lapElem>>)>>)>>)

\* Lines 178-192: the value build_xml returns.
build_xml(a_id, sport, lp, tps) == Serialize(a_id, sport, AttachTrack(lp, tps), tps)

(***************************************************************************)
(* prepare_exercise, one step at a time.  The two sample lists are read    *)
(* as the loops iterate them: a loop either takes one more sample or       *)
(* finds its list at its end.                                              *)
(***************************************************************************)
DefaultExercise ==
    [datauuid |-> 1, start_time |-> "2024-05-01 07:30:00", total_calorie |-> "321.7",
     duration |-> "60000", exercise_type |-> "1002",
     mean_heart_rate |-> "150.0", max_heart_rate |-> "150.0",
     mean_speed |-> "2.5", max_speed |-> "2.5",
     mean_cadence |-> "80.0", max_cadence |-> "80.0", distance |-> "5000.0",
     location_data |-> "location_data.json", live_data |-> "live_data.json"]

\* Line 249: ex["start_time"].replace(" ", "T") + "Z"
StartOf(row) ==
    CASE row.start_time = "2024-05-01 07:30:00" -> "2024-05-01T07:30:00Z"

\* Lines 252-263.
LapOf(row) ==
    create_lap(StartOf(row), row.duration, row.distance, row.total_calorie,
               row.mean_heart_rate, row.max_heart_rate, row.mean_speed, row.max_speed,
               row.mean_cadence, row.max_cadence)

\* Lines 249-263: create_lap returns the Lap, or int(duration) raises.
CreateLap ==
    /\ pc = "lap"
    /\ IF create_lap_raises(ex.duration)
       THEN pc' = "raised" /\ lap' = lap
       ELSE pc' = "location" /\ lap' = LapOf(ex)
    /\ UNCHANGED <<ex, eligible, nlive, liveTimes, merged, e, ts, nloc, timeline, trackpoints, outputs>>
    /\ UNCHANGED mainVars

\* Lines 210-219: one pass of the location loop.
LocationStep ==
    /\ pc = "location"
    /\ ex.location_data # ""
    /\ nloc < MaxLocation
    /\ \E s \in LocationSamples :
          /\ merged' = MergeLocation(merged, s)
          /\ eligible' = IF HasCoordinates(s) THEN (s.start_time :> s) @@ eligible
                         ELSE eligible
    /\ nloc' = nloc + 1
    /\ UNCHANGED <<ex, pc, lap, nlive, liveTimes, e, ts, timeline, trackpoints, outputs>>
    /\ UNCHANGED mainVars

\* The location list is at its end: on to line 221.
LocationEnd ==
    /\ pc = "location"
    /\ pc' = "live"
    /\ nloc' = 0
    /\ UNCHANGED <<ex, lap, eligible, nlive, liveTimes, merged, e, ts, timeline, trackpoints, outputs>>
    /\ UNCHANGED mainVars

\* Lines 221-236: one pass of the live loop.
LiveStep ==
    /\ pc = "live"
    /\ ex.live_data # ""
    /\ nlive < MaxLive
    /\ \E s \in LiveSamples :
          /\ e' = s
          /\ ts' = SnapKey(merged, s)
          /\ merged' = MergeLive(merged, s)
          /\ liveTimes' = liveTimes \cup {s.start_time}
    /\ nlive' = nlive + 1
    /\ UNCHANGED <<ex, pc, lap, eligible, nloc, timeline, trackpoints, outputs>>
    /\ UNCHANGED mainVars

\* Lines 238-245: the live list is at its end; sort, fill and return.
MergeReturn ==
    /\ pc = "live"
    /\ timeline' = ForwardFill(SortItems(merged))
    /\ pc' = "merged"
    /\ UNCHANGED <<ex, lap, eligible, nlive, liveTimes, merged, e, ts, nloc, trackpoints, outputs>>
    /\ UNCHANGED mainVars

\* Line 269.
TrackpointsOf(tl) == [i \in DOMAIN tl |-> create_trackpoint(tl[i][2])]

\* Lines 269-271.
BuildDocument ==
    /\ pc = "merged"
    /\ trackpoints' = TrackpointsOf(timeline)
    /\ outputs' = <<build_xml(StartOf(ex), convert_activity_type(ex.exercise_type),
                              lap, TrackpointsOf(timeline))>>
    /\ lap' = AttachTrack(lap, TrackpointsOf(timeline))
    /\ pc' = "built"
    /\ UNCHANGED <<ex, eligible, nlive, liveTimes, merged, e, ts, nloc, timeline>>
    /\ UNCHANGED mainVars

\* A caller runs build_xml again on the Lap and the trackpoints it passed before.
BuildAgain ==
    /\ pc = "built"
    /\ Len(outputs) < MaxCalls
    /\ outputs' = Append(outputs,
                         build_xml(StartOf(ex), convert_activity_type(ex.exercise_type),
                                   lap, trackpoints))
    /\ lap' = AttachTrack(lap, trackpoints)
    /\ UNCHANGED <<ex, pc, eligible, nlive, liveTimes, merged, e, ts, nloc, timeline, trackpoints>>
    /\ UNCHANGED mainVars

NoLap == [StartTime |-> "", children |-> <<>>, tracks |-> <<>>]
NoExercises == <<>>

PrepStart ==
    /\ pc = "lap"
    /\ lap = NoLap
    /\ eligible = <<>>
    /\ nlive = 0
    /\ liveTimes = {}
    /\ merged = EmptyDict
    /\ e = NoSample
    /\ ts = 0
    /\ nloc = 0
    /\ timeline = EmptyDict
    /\ trackpoints = <<>>
    /\ outputs = <<>>

MainIdle ==
    /\ exercises = NoExercises
    /\ idx = 0
    /\ mpc = "idle"
    /\ xml = ""
    /\ files = <<>>
    /\ log = <<>>

\* merge_location_and_live under every input, for one summary row.
InitMerge == ex = DefaultExercise /\ PrepStart /\ MainIdle

NextMerge ==
    \/ CreateLap
    \/ LocationStep
    \/ LocationEnd
    \/ LiveStep
    \/ MergeReturn
    \/ BuildDocument

SpecMerge == InitMerge /\ [][NextMerge]_vars

(***************************************************************************)
(* Claims about merge_location_and_live (under SpecMerge).                 *)
(***************************************************************************)
Returned == pc \in {"merged", "built"}

HeartRateOf(tl, i) == tl[i][2].heart_rate

\* The key has a heart rate of its own: one a live sample wrote at lines 233-234.
HasOwn(k) == "heart_rate" \in DOMAIN Get(merged, k)

\* The keys below k that have a heart rate of their own.
OwnBelow(k) == {j \in Keys(merged) : j < k /\ HasOwn(j)}

MaxOf(S) == CHOOSE x \in S : \A y \in S : y <= x

Dist(a, b) == Abs(a - b)

\* C1: a live sample whose timestamp is not a key of the non-empty timeline is
\* merged into the key nearest to its timestamp, the smaller of two keys at
\* the same distance, whatever the order of the location samples.
C1_SnapNearestSmallestOnTie ==
    (pc = "live" /\ nlive > 0 /\ e.start_time \notin Keys(merged)) =>
        /\ ts \in Keys(merged)
        /\ \A k \in Keys(merged) :
              \/ Dist(ts, e.start_time) < Dist(k, e.start_time)
              \/ (Dist(ts, e.start_time) = Dist(k, e.start_time) /\ ts <= k)
        /\ "heart_rate" \in DOMAIN e => Get(merged, ts).heart_rate = PyInt(e.heart_rate)
        /\ "cadence" \in DOMAIN e => Get(merged, ts).cadence = e.cadence

\* C2 as stated: in the returned timeline, once a sample has a non-zero heart
\* rate, every later sample has a non-zero heart rate: its own if it has one,
\* else that of the sample before it.
C2_ForwardFillNonZero ==
    Returned =>
        \A i \in DOMAIN timeline : \A j \in DOMAIN timeline :
            (i <= j /\ HeartRateOf(timeline, i) # 0) =>
                /\ HeartRateOf(timeline, j) # 0
                /\ HeartRateOf(timeline, j) =
                      IF HasOwn(timeline[j][1])
                      THEN Get(merged, timeline[j][1]).heart_rate
                      ELSE HeartRateOf(timeline, j - 1)

\* No key holds a heart rate of 0 written by a live sample.
NoZeroStored == \A k \in Keys(merged) : HasOwn(k) => Get(merged, k).heart_rate # 0

\* C2 amended: the same, for the inputs that leave no key with a stored heart
\* rate of 0.
C2_ForwardFillNonZeroUnlessZeroStored ==
    (Returned /\ NoZeroStored) =>
        \A i \in DOMAIN timeline : \A j \in DOMAIN timeline :
            (i <= j /\ HeartRateOf(timeline, i) # 0) =>
                /\ HeartRateOf(timeline, j) # 0
                /\ HeartRateOf(timeline, j) =
                      IF HasOwn(timeline[j][1])
                      THEN Get(merged, timeline[j][1]).heart_rate
                      ELSE HeartRateOf(timeline, j - 1)

\* A key without a heart rate of its own follows one with a non-zero heart rate.
C2_Witness ==
    /\ pc = "merged"
    /\ NoZeroStored
    /\ \E j \in DOMAIN timeline :
          /\ j > 1
          /\ ~HasOwn(timeline[j][1])
          /\ HeartRateOf(timeline, j - 1) # 0

\* C3: with no location sample that has both coordinates, the keys of the
\* returned timeline are the timestamps of the live samples.
C3_LiveOnlyKeysAreLiveTimes ==
    (Returned /\ DOMAIN eligible = {}) => Keys(timeline) = liveTimes

\* C8: every entry of the returned timeline has a heart rate: the one a live
\* sample wrote to its key, else that of the nearest smaller key that has one
\* written, else 0; and a live sample's heart rate replaces the one its key had.
C8_ForwardFillReference ==
    /\ Returned =>
          \A i \in DOMAIN timeline :
              LET k == timeline[i][1]
              IN /\ "heart_rate" \in DOMAIN timeline[i][2]
                 /\ HeartRateOf(timeline, i) =
                       IF HasOwn(k) THEN Get(merged, k).heart_rate
                       ELSE IF OwnBelow(k) # {}
                            THEN Get(merged, MaxOf(OwnBelow(k))).heart_rate
                            ELSE 0
    /\ (pc = "live" /\ nlive > 0 /\ "heart_rate" \in DOMAIN e) =>
          Get(merged, ts).heart_rate = PyInt(e.heart_rate)

\* A key takes its heart rate from a smaller key, with a key that has a
\* stored 0 in the timeline too.
C8_Witness ==
    /\ pc = "merged"
    /\ \E i \in DOMAIN timeline :
          /\ ~HasOwn(timeline[i][1])
          /\ OwnBelow(timeline[i][1]) # {}
    /\ \E k \in Keys(merged) : HasOwn(k) /\ Get(merged, k).heart_rate = 0

\* C10: with a location sample that has both coordinates, the keys are the
\* timestamps of such samples, during and after the live loop, and each entry
\* has the coordinates of the last of them at its timestamp.
C10_KeysAreEligibleLocations ==
    (pc \in {"live", "merged", "built"} /\ DOMAIN eligible # {}) =>
        /\ Keys(merged) = DOMAIN eligible
        /\ \A k \in Keys(merged) :
              /\ Get(merged, k).latitude = eligible[k].latitude
              /\ Get(merged, k).longitude = eligible[k].longitude
        /\ Returned =>
              /\ Keys(timeline) = DOMAIN eligible
              /\ \A i \in DOMAIN timeline :
                    /\ timeline[i][2].latitude = eligible[timeline[i][1]].latitude
                    /\ timeline[i][2].longitude = eligible[timeline[i][1]].longitude

\* Live samples with timestamps that are no key were merged.
C10_Witness ==
    /\ pc = "merged"
    /\ DOMAIN eligible # {}
    /\ nlive > 1
    /\ liveTimes \cap DOMAIN eligible = {}

(***************************************************************************)
(* Claims about the document (create_trackpoint, create_lap, build_xml).   *)
(***************************************************************************)
\* The Lap element of a serialized document, and its Track elements.
LapIn(doc) == doc.children[1].children[1].children[2]

TracksIn(doc) == SelectSeq(LapIn(doc).children, LAMBDA c : c.tag = "Track")

HasChild(el, tag) == \E i \in DOMAIN el.children : el.children[i].tag = tag

\* C9: the document has one Trackpoint for each key of the timeline, in the
\* ascending order of the keys, each with its Time and its HeartRateBpm, in
\* one Track, which the Lap has iff the timeline is not empty.
C9_EveryKeyHasItsTrackpoint ==
    pc = "built" =>
        LET tracks == TracksIn(outputs[1])
        IN /\ Keys(timeline) = Keys(merged)
           /\ \A i \in DOMAIN timeline : i > 1 => timeline[i - 1][1] < timeline[i][1]
           /\ Len(tracks) = IF timeline = EmptyDict THEN 0 ELSE 1
           /\ timeline # EmptyDict =>
                 /\ Len(tracks[1].children) = Cardinality(Keys(timeline))
                 /\ \A i \in DOMAIN tracks[1].children :
                       LET tp == tracks[1].children[i]
                       IN /\ tp.tag = "Trackpoint"
                          /\ tp.children[1].tag = "Time"
                          /\ tp.children[1].text = FormatTime(timeline[i][1])
                          /\ \E c \in DOMAIN tp.children :
                                /\ tp.children[c].tag = "HeartRateBpm"
                                /\ tp.children[c].children[1].text =
                                      ToString(HeartRateOf(timeline, i))

\* A key whose entry holds nothing but its time before the fill.
C9_Witness ==
    /\ pc = "built"
    /\ \E k \in Keys(merged) : DOMAIN Get(merged, k) = {"time"}

\* Line 124's rule for a value of the summary row.
Present(v) == v # "" /\ v # "0.0"

LapMade == pc \notin {"lap", "raised"}

\* C7: the Lap has an Extensions element iff the average speed or the average
\* cadence is present, and then its LX block is not empty.
C7_ExtensionsIffPresent ==
    LapMade =>
        /\ HasChild(lap, "Extensions") <=> (Present(ex.mean_speed) \/ Present(ex.mean_cadence))
        /\ \A i \in DOMAIN lap.children :
              lap.children[i].tag = "Extensions" =>
                  Len(lap.children[i].children[1].children) >= 1

\* C4: a second build_xml on the same Lap and trackpoints returns the document
\* the first returned, with one Track in the Lap.
C4_BuildXmlIdempotent ==
    Len(outputs) >= 2 =>
        /\ outputs[2] = outputs[1]
        /\ Len(TracksIn(outputs[2])) = Len(TracksIn(outputs[1]))
        /\ Len(TracksIn(outputs[2])) <= 1

(***************************************************************************)
(* prepare_exercise for the rows that have no location data, with the      *)
(* values of the summary row varied, and build_xml called again.           *)
(***************************************************************************)
DurationTexts == {"", "60000", "61500", "abc"}
RateTexts == {"", "0.0", "2.5"}
CadenceTexts == {"", "0.0", "80.0"}

InitDoc ==
    /\ ex \in {[DefaultExercise EXCEPT !.duration = d, !.mean_speed = sp,
                                       !.mean_cadence = c, !.location_data = ""] :
                 d \in DurationTexts, sp \in RateTexts, c \in CadenceTexts}
    /\ PrepStart
    /\ MainIdle

NextDoc ==
    \/ CreateLap
    \/ LocationEnd
    \/ LiveStep
    \/ MergeReturn
    \/ BuildDocument
    \/ BuildAgain

SpecDoc == InitDoc /\ [][NextDoc]_vars

(***************************************************************************)
(* The main loop, lines 284-297.  A file of the exports directory is       *)
(* "absent", "old" (left by an earlier run), "truncated" (opened for       *)
(* writing, holding less than the document) or "complete".  The row number *)
(* is the row's datauuid, so the rows have their own output files.         *)
(***************************************************************************)
ExerciseTypes == {"1002", "11007"}
RowDurations == {"60000", "abc"}

RowsOf(len) ==
    [1..len -> {[DefaultExercise EXCEPT !.exercise_type = t, !.duration = d] :
                   t \in ExerciseTypes, d \in RowDurations}]

Row(i) == [exercises[i] EXCEPT !.datauuid = i]

Printed(kind, uuid) == [kind |-> kind, uuid |-> uuid]

\* Lines 284-286: a row that is no running activity is passed over.
ForSkip ==
    /\ mpc = "for"
    /\ idx < Len(exercises)
    /\ Row(idx + 1).exercise_type # "1002"
    /\ idx' = idx + 1
    /\ UNCHANGED <<exercises, mpc, xml, files, log>>
    /\ UNCHANGED prepVars

\* Lines 284-288: a running activity enters the try block.
ForRunning ==
    /\ mpc = "for"
    /\ idx < Len(exercises)
    /\ Row(idx + 1).exercise_type = "1002"
    /\ idx' = idx + 1
    /\ log' = Append(log, Printed(".", idx + 1))
    /\ mpc' = "prepare"
    /\ UNCHANGED <<exercises, xml, files>>
    /\ UNCHANGED prepVars

\* Line 297: the list is at its end.
ForEnd ==
    /\ mpc = "for"
    /\ idx = Len(exercises)
    /\ log' = Append(log, Printed("Done", 0))
    /\ mpc' = "end"
    /\ UNCHANGED <<exercises, idx, xml, files>>
    /\ UNCHANGED prepVars

\* Line 289: prepare_exercise returns the document.
PrepareReturns ==
    /\ mpc = "prepare"
    /\ ~create_lap_raises(Row(idx).duration)
    /\ xml' = "document"
    /\ mpc' = "open"
    /\ UNCHANGED <<exercises, idx, files, log>>
    /\ UNCHANGED prepVars

\* Line 289: prepare_exercise raises (create_lap's ValueError, or an error of
\* json.load or of a sample that lacks a field).
PrepareRaises ==
    /\ mpc = "prepare"
    /\ mpc' = "except"
    /\ UNCHANGED <<exercises, idx, xml, files, log>>
    /\ UNCHANGED prepVars

\* Line 292: open(out, "w") creates the file or cuts it to nothing.
OpenReturns ==
    /\ mpc = "open"
    /\ files' = [files EXCEPT ![idx] = "truncated"]
    /\ mpc' = "write"
    /\ UNCHANGED <<exercises, idx, xml, log>>
    /\ UNCHANGED prepVars

\* Line 292: open raises OSError.
OpenRaises ==
    /\ mpc = "open"
    /\ mpc' = "except"
    /\ UNCHANGED <<exercises, idx, xml, files, log>>
    /\ UNCHANGED prepVars

\* Line 293 and the end of the with block: the document is in the file.
WriteReturns ==
    /\ mpc = "write"
    /\ files' = [files EXCEPT ![idx] = "complete"]
    /\ mpc' = "for"
    /\ UNCHANGED <<exercises, idx, xml, log>>
    /\ UNCHANGED prepVars

\* Line 293 or the close raises OSError: the file holds what was written.
WriteRaises ==
    /\ mpc = "write"
    /\ mpc' = "except"
    /\ UNCHANGED <<exercises, idx, xml, files, log>>
    /\ UNCHANGED prepVars

\* An except clause that lets the exception through: the run ends there.
ExceptReraise ==
    /\ mpc = "except"
    /\ mpc' = "aborted"
    /\ UNCHANGED <<exercises, idx, xml, files, log>>
    /\ UNCHANGED prepVars

\* Lines 294-295: the exception is caught and printed; the loop goes on.
Except ==
    /\ mpc = "except"
    /\ log' = Append(log, Printed("Error", idx))
    /\ mpc' = "for"
    /\ UNCHANGED <<exercises, idx, xml, files>>
    /\ UNCHANGED prepVars

PrepIdle ==
    /\ ex = DefaultExercise
    /\ PrepStart

\* Lines 277-283: the rows are read, and exports holds what earlier runs left.
InitMain ==
    /\ \E len \in 0..MaxExercises :
          /\ exercises \in RowsOf(len)
          /\ files \in [1..len -> {"absent", "old"}]
    /\ idx = 0
    /\ mpc = "for"
    /\ xml = ""
    /\ log = <<>>
    /\ PrepIdle

NextMain ==
    \/ ForSkip
    \/ ForRunning
    \/ ForEnd
    \/ PrepareReturns
    \/ PrepareRaises
    \/ OpenReturns
    \/ OpenRaises
    \/ WriteReturns
    \/ WriteRaises
    \/ Except

SpecMain == InitMain /\ [][NextMain]_vars

\* The interpreter runs the loop on: each call returns or raises, and the
\* statement after it is executed.
SpecMainFair == SpecMain /\ WF_vars(NextMain)

(***************************************************************************)
(* Claims about the main loop (under SpecMain).                            *)
(***************************************************************************)
Running(i) == Row(i).exercise_type = "1002"

Entered(i) == \E j \in DOMAIN log : log[j] = Printed(".", i)

Failed(i) == \E j \in DOMAIN log : log[j] = Printed("Error", i)

\* What holds of the run at every moment: no exception ends it, and at its end
\* every row was visited, each running activity that did not fail has its
\* output file, and no other row has one written by this run.
RunIsolatesFailures ==
    /\ mpc # "aborted"
    /\ mpc = "end" =>
          /\ idx = Len(exercises)
          /\ \A i \in DOMAIN exercises :
                /\ Running(i) => Entered(i)
                /\ (Running(i) /\ ~Failed(i)) => files[i] = "complete"
                /\ ~Running(i) => (~Entered(i) /\ files[i] \in {"absent", "old"})

\* C5: a failure of one activity does not end the run: the loop visits the
\* later rows, the running activities that do not fail get their output
\* files, the other rows get none, and the run reaches its end.
C5_FailuresAreIsolated == []RunIsolatesFailures /\ <>(mpc = "end")

\* A running activity failed and a later one has its output file.
C5_Witness ==
    /\ mpc = "end"
    /\ \E i \in DOMAIN exercises : \E j \in DOMAIN exercises :
          /\ i < j
          /\ Failed(i)
          /\ Running(j) /\ ~Failed(j) /\ files[j] = "complete"

\* C6: once the failure of an activity is caught, its output file is absent,
\* unchanged or complete.
C6_NoPartialOutput ==
    mpc \in {"for", "end"} =>
        \A i \in DOMAIN exercises :
            Failed(i) => files[i] \in {"absent", "old", "complete"}

====
